---- MODULE Spec2Model ----
(***************************************************************************)
(* The "Generate Blog Post" pipeline of streamlit_app.py: one web search,  *)
(* a sequential scrape-and-extract loop over the first 20 result links,    *)
(* and one synthesis call, together with the messages and the article the  *)
(* run shows to the user (st.error, st.warning, st.markdown).  The         *)
(* informational st.write / st.checkbox / st.text_area calls carry no      *)
(* outcome and are left out of the record of widget calls; the progress    *)
(* bar is kept as its numerator.                                           *)
(*                                                                         *)
(* The web, the search provider and the language model are the             *)
(* environment.  What they answer is fixed in the initial state: the       *)
(* search response, and the outcome of the k-th page (fetch and            *)
(* extraction), repeating with period Period along the result list.  The   *)
(* outcome of the synthesis call is chosen when the call is made.          *)
(***************************************************************************)
EXTENDS Integers, Sequences, FiniteSets

\* ------------------------------------------------------------------ bounds
\* Longest organic_results list the search provider answers with.
MaxResults == 21
\* Period of the per-page outcome pattern and of the has-a-link pattern.
Period == 2

\* The slice urls[:20].
Limit == 20

\* ------------------------------------------------------- Python values
None == [type |-> "NoneType"]

\* A str: what it says, what it is about (a URL, or 0), and whether the
\* text "An error occurred" occurs in it.
Str(text, about, phrase) ==
    [type |-> "str", text |-> text, about |-> about, phrase |-> phrase]

\* bool(v) for the values the program tests: None, str, dict, list.
Truthy(v) ==
    CASE v.type = "NoneType" -> FALSE
      [] v.type = "str"      -> v.text # ""
      [] v.type = "dict"     -> ~v.empty
      [] v.type = "list"     -> ~v.empty

\* One st.error, st.warning or st.markdown call of the run.
Ui(widget, body) == [widget |-> widget, body |-> body]

\* ----------------------------------------------------- the environment
\* The result record at rank i: with a 'link' key or without one.
ResultRecord(i, has_link) ==
    [has_link |-> has_link, link |-> IF has_link THEN i ELSE 0]

\* organic_results of n records, record i carrying a link as the pattern says.
OrganicResults(n, pat) ==
    [i \in 1..n |-> ResultRecord(i, pat[((i - 1) % Period) + 1])]

\* The JSON bodies a search that returns 200 can carry.
JsonBodies ==
    {[type |-> "NoneType"]}
    \cup {[type |-> "list", empty |-> e] : e \in BOOLEAN}
    \cup {[type |-> "dict", empty |-> TRUE, has_organic |-> FALSE,
           organic_results |-> <<>>]}
    \cup {[type |-> "dict", empty |-> FALSE, has_organic |-> FALSE,
           organic_results |-> <<>>]}
    \cup {[type |-> "dict", empty |-> FALSE, has_organic |-> TRUE,
           organic_results |-> OrganicResults(n, pat)] :
             n \in 0..MaxResults, pat \in [1..Period -> BOOLEAN]}

\* What requests.get(...) / raise_for_status() / json() do in search_web.
SearchResponses ==
    {[kind |-> "exc", body |-> None]}
    \cup {[kind |-> "json", body |-> b] : b \in JsonBodies}

\* What one page of the result list does to the loop body.
PageOutcomes ==
    {"fetch_exc", "fetch_blank", "extract_exc", "extract_empty", "ok"}

\* What the synthesis call does.
SynthOutcomes == {"exc", "text", "text_with_phrase"}

VARIABLES
    pc,               \* where the handler is
    search_response,  \* environment: the provider's answer
    pages,            \* environment: outcome pattern of the pages
    search_results,   \* line 130
    urls,             \* line 134
    total_urls,       \* line 138
    index,            \* iterations of the loop completed
    parsed_summaries, \* line 142
    progress,         \* numerator of the last progress_bar.progress call
    ui,               \* the st.error/st.warning/st.markdown calls so far
    fetch_calls,      \* requests.get(url) calls of scrape_relevant_content
    extract_calls,    \* gpt-4o-mini calls, by URL
    synth_calls,      \* gpt-4o calls, by the summaries they were given
    blog_post         \* line 156

vars == <<pc, search_response, pages, search_results, urls, total_urls, index,
          parsed_summaries, progress, ui, fetch_calls, extract_calls,
          synth_calls, blog_post>>

env == <<search_response, pages>>

PageOutcome(k) == pages[((k - 1) % Period) + 1]

Init ==
    /\ pc = "start"
    /\ search_response \in SearchResponses
    /\ pages \in [1..Period -> PageOutcomes]
    /\ search_results = None
    /\ urls = <<>>
    /\ total_urls = 0
    /\ index = 0
    /\ parsed_summaries = <<>>
    /\ progress = 0
    /\ ui = <<>>
    /\ fetch_calls = <<>>
    /\ extract_calls = <<>>
    /\ synth_calls = <<>>
    /\ blog_post = None

\* ------------------------------------------------------- the functions
\* Mutant of search_web: the except branch returns a dict describing the
\* error instead of None.
search_web_ErrorDict(response) ==
    IF response.kind = "exc"
    THEN [ret |-> [type |-> "dict", empty |-> FALSE, has_organic |-> FALSE,
                   organic_results |-> <<>>],
          ui  |-> <<Ui("error", Str("web_search_error", 0, TRUE))>>]
    ELSE [ret |-> response.body, ui |-> <<>>]

\* search_web: the parsed body, or None after st.error when anything raised.
search_web(response) ==
    IF response.kind = "exc"
    THEN [ret |-> None,
          ui  |-> <<Ui("error", Str("web_search_error", 0, TRUE))>>]
    ELSE [ret |-> response.body, ui |-> <<>>]

\* scrape_relevant_content: a content dict tagged with its URL, or None after
\* st.error (anything raised) or st.warning (nothing but whitespace found).
scrape_relevant_content(url, outcome) ==
    CASE outcome = "fetch_exc" ->
           [ret |-> None,
            ui  |-> <<Ui("error", Str("scrape_error", url, TRUE))>>]
      [] outcome = "fetch_blank" ->
           [ret |-> None,
            ui  |-> <<Ui("warning", Str("no_relevant_content", url, FALSE))>>]
      [] OTHER ->
           [ret |-> [type |-> "dict", empty |-> FALSE, url |-> url],
            ui  |-> <<>>]

\* Mutant of extract_verbatim_with_gpt: the except branch returns the error
\* message instead of None.
extract_verbatim_with_gpt_ErrorString(content_data, outcome) ==
    CASE outcome = "extract_exc" ->
           [ret |-> Str("extract_error", 0, TRUE), ui |-> <<>>]
      [] outcome = "extract_empty" ->
           [ret |-> Str("", 0, FALSE), ui |-> <<>>]
      [] OTHER ->
           [ret |-> Str("extract", content_data.url, FALSE), ui |-> <<>>]

\* extract_verbatim_with_gpt: the model's message content, or None after
\* st.error when the call raised.
extract_verbatim_with_gpt(content_data, outcome) ==
    CASE outcome = "extract_exc" ->
           [ret |-> None,
            ui  |-> <<Ui("error", Str("extract_error", 0, TRUE))>>]
      [] outcome = "extract_empty" ->
           [ret |-> Str("", 0, FALSE), ui |-> <<>>]
      [] OTHER ->
           [ret |-> Str("extract", content_data.url, FALSE), ui |-> <<>>]

\* create_blog_post: the model's message content, or None after st.error
\* when the call raised.
create_blog_post(summaries, outcome) ==
    CASE outcome = "exc" ->
           [ret |-> None,
            ui  |-> <<Ui("error", Str("blog_post_error", 0, TRUE))>>]
      [] outcome = "text" ->
           [ret |-> Str("article", 0, FALSE), ui |-> <<>>]
      [] OTHER ->
           [ret |-> Str("article", 0, TRUE), ui |-> <<>>]

\* ------------------------------------------------------- the handler
\* search_results.get('organic_results', [])
Organic(results) ==
    IF results.has_organic THEN results.organic_results ELSE <<>>

\* Mutant of Urls: the comprehension without its "if 'link' in result".
Urls_NoLinkFilter(results) ==
    [i \in 1..Len(Organic(results)) |-> Organic(results)[i].link]

\* [result['link'] for result in ... if 'link' in result]
Urls(results) ==
    LET with_link == SelectSeq(Organic(results), LAMBDA r : r.has_link)
    IN  [i \in 1..Len(with_link) |-> with_link[i].link]

\* urls[:20]
Top(us) == SubSeq(us, 1, IF Len(us) < Limit THEN Len(us) ELSE Limit)

\* Mutant of Accumulate: append without the "if extracted_summary" test.
Accumulate_Always(summaries, extracted_summary) ==
    Append(summaries, extracted_summary)

\* Mutant of Accumulate: insert(0, ...) instead of append.
Accumulate_Prepend(summaries, extracted_summary) ==
    IF extracted_summary.type = "str" /\ extracted_summary.text # ""
    THEN <<extracted_summary>> \o summaries
    ELSE summaries

\* if extracted_summary: parsed_summaries.append(extracted_summary)
Accumulate(summaries, extracted_summary) ==
    IF Truthy(extracted_summary)
    THEN Append(summaries, extracted_summary)
    ELSE summaries

\* Mutant of HasSummaries: the synthesis is attempted whatever was collected.
HasSummaries_Always(summaries) == TRUE

\* if parsed_summaries:
HasSummaries(summaries) == summaries # <<>>

\* if isinstance(blog_post, str) and "An error occurred" in blog_post:
\*     st.error(blog_post)  else:  st.markdown(blog_post)
Present(post) ==
    IF post.type = "str" /\ post.phrase
    THEN <<Ui("error", post)>>
    ELSE <<Ui("markdown", post)>>

\* Lines 130-142 and 163-164: the search, and either the URL list and the
\* empty collection, or the closing st.error.  A body that is truthy but no
\* dict has no .get: the handler raises and the run stops there.
Search ==
    /\ pc = "start"
    /\ LET r == search_web(search_response) IN
       /\ search_results' = r.ret
       /\ IF Truthy(r.ret)
          THEN IF r.ret.type = "dict"
               THEN /\ urls' = Urls(r.ret)
                    /\ total_urls' = Len(Top(urls'))
                    /\ ui' = r.ui
                    /\ pc' = IF total_urls' = 0 THEN "collected" ELSE "processing"
               ELSE /\ ui' = r.ui \o
                         <<Ui("exception", Str("AttributeError", 0, FALSE))>>
                    /\ pc' = "crashed"
                    /\ UNCHANGED <<urls, total_urls>>
          ELSE /\ ui' = r.ui \o
                    <<Ui("error", Str("failed_web_search", 0, FALSE))>>
               /\ pc' = "done"
               /\ UNCHANGED <<urls, total_urls>>
    /\ UNCHANGED <<env, index, parsed_summaries, progress, fetch_calls,
                   extract_calls, synth_calls, blog_post>>

\* Mutant of ProcessUrl: a URL that yields no content ends the loop.
ProcessUrl_AbortOnFailure ==
    /\ pc = "processing"
    /\ index < total_urls
    /\ LET url     == SubSeq(urls, 1, total_urls)[index + 1]
           outcome == PageOutcome(index + 1)
           scraped == scrape_relevant_content(url, outcome)
           fetched == scraped.ret.type = "dict"
           extracted ==
               IF fetched
               THEN extract_verbatim_with_gpt(scraped.ret, outcome)
               ELSE [ret |-> None, ui |-> <<>>]
       IN
       /\ fetch_calls' = Append(fetch_calls, url)
       /\ extract_calls' =
              IF fetched THEN Append(extract_calls, url) ELSE extract_calls
       /\ parsed_summaries' =
              IF fetched /\ extracted.ret.type = "str" /\ extracted.ret.text # ""
              THEN Append(parsed_summaries, extracted.ret)
              ELSE parsed_summaries
       /\ ui' = ui \o scraped.ui \o extracted.ui
       /\ pc' = IF index + 1 = total_urls \/ ~fetched
                THEN "collected" ELSE "processing"
    /\ index' = index + 1
    /\ progress' = index + 1
    /\ UNCHANGED <<env, search_results, urls, total_urls, synth_calls,
                   blog_post>>

\* Lines 143-151: one iteration of the loop over urls[:20].
ProcessUrl ==
    /\ pc = "processing"
    /\ index < total_urls
    /\ LET url     == Top(urls)[index + 1]
           outcome == PageOutcome(index + 1)
           scraped == scrape_relevant_content(url, outcome)
           fetched == Truthy(scraped.ret)
           extracted ==
               IF fetched
               THEN extract_verbatim_with_gpt(scraped.ret, outcome)
               ELSE [ret |-> None, ui |-> <<>>]
       IN
       /\ fetch_calls' = Append(fetch_calls, url)
       /\ extract_calls' =
              IF fetched THEN Append(extract_calls, url) ELSE extract_calls
       /\ parsed_summaries' =
              IF fetched
              THEN Accumulate(parsed_summaries, extracted.ret)
              ELSE parsed_summaries
       /\ ui' = ui \o scraped.ui \o extracted.ui
    /\ index' = index + 1
    /\ progress' = index + 1
    /\ pc' = IF index + 1 = total_urls THEN "collected" ELSE "processing"
    /\ UNCHANGED <<env, search_results, urls, total_urls, synth_calls,
                   blog_post>>

\* Lines 153-162: after the loop, the synthesis and its presentation, or the
\* closing st.error.
Collect ==
    /\ pc = "collected"
    /\ IF HasSummaries(parsed_summaries)
       THEN \E outcome \in SynthOutcomes :
              LET b == create_blog_post(parsed_summaries, outcome) IN
              /\ synth_calls' = Append(synth_calls, parsed_summaries)
              /\ blog_post' = b.ret
              /\ ui' = ui \o b.ui \o Present(b.ret)
       ELSE /\ ui' = ui \o <<Ui("error", Str("no_valid_content", 0, FALSE))>>
            /\ UNCHANGED <<synth_calls, blog_post>>
    /\ pc' = "done"
    /\ UNCHANGED <<env, search_results, urls, total_urls, index,
                   parsed_summaries, progress, fetch_calls, extract_calls>>

Next == Search \/ ProcessUrl \/ Collect

Spec == Init /\ [][Next]_vars

\* The script runs top to bottom: a step that can be taken is taken.
FairSpec == Spec /\ WF_vars(Next)

\* ------------------------------------------------- what the claims speak of
\* The run got past the search: search_web returned a truthy dict.
SearchedOk ==
    pc \in {"processing", "collected", "done"} /\ Truthy(search_results)

\* The first 20 link-bearing results of the provider's answer, by rank.
UsableUrls ==
    LET b == search_response.body
        n == IF search_response.kind = "json" /\ b.type = "dict"
             THEN Len(b.organic_results) ELSE 0
        ranks == SelectSeq([i \in 1..n |-> i],
                           LAMBDA i : b.organic_results[i].has_link)
    IN  SubSeq(ranks, 1, IF Len(ranks) < 20 THEN Len(ranks) ELSE 20)

\* The positions of the prefix whose page had the given outcomes, in order.
PagesWith(outcomes) ==
    SelectSeq([k \in 1..Len(UsableUrls) |-> k],
              LAMBDA k : PageOutcome(k) \in outcomes)

Shown(widget, text) ==
    \E i \in DOMAIN ui : ui[i].widget = widget /\ ui[i].body.text = text

Rendered == \E i \in DOMAIN ui : ui[i].widget = "markdown"

\* The st.error calls that close a run or announce the failure of a stage of
\* the whole run (not of one URL).
FatalTexts ==
    {"web_search_error", "failed_web_search", "no_valid_content",
     "blog_post_error", "article"}

FatalErrors ==
    {i \in DOMAIN ui : ui[i].widget = "error" /\ ui[i].body.text \in FatalTexts}

LastUi == ui[Len(ui)]

NoCalls == fetch_calls = <<>> /\ extract_calls = <<>> /\ synth_calls = <<>>

\* ------------------------------------------------------------------- C1
\* C1: whenever the collection is empty after the loop, create_blog_post is
\* not called, and the run closes with the one st.error "No valid content
\* could be extracted ..." and renders nothing.
C1_EmptyExtractsNoSynthesis ==
    (SearchedOk /\ pc \in {"collected", "done"} /\ parsed_summaries = <<>>)
        => /\ synth_calls = <<>>
           /\ pc = "done" =>
                /\ LastUi = Ui("error", Str("no_valid_content", 0, FALSE))
                /\ ~Rendered
                /\ blog_post = None

\* Every page of a prefix of at least two fetched, every extraction raised.
C1_Witness ==
    /\ pc = "done"
    /\ total_urls >= 2
    /\ Len(extract_calls) = total_urls
    /\ \A k \in 1..total_urls : PageOutcome(k) = "extract_exc"
    /\ parsed_summaries = <<>>
    /\ Shown("error", "no_valid_content")

\* ------------------------------------------------------------------- C2
\* C2: at every point of the loop the collection is no longer than the
\* number of URLs processed (itself at most 20), and each member is the text
\* the extraction returned for a processed URL whose fetch and extraction
\* both succeeded: never None, never an error message.
C2_MembersAreSuccessfulExtracts ==
    /\ Len(parsed_summaries) <= index
    /\ index <= 20
    /\ \A i \in DOMAIN parsed_summaries :
         LET m == parsed_summaries[i] IN
         /\ m.type = "str"
         /\ m.text = "extract"
         /\ ~m.phrase
         /\ \E k \in 1..index :
              /\ UsableUrls[k] = m.about
              /\ fetch_calls[k] = m.about
              /\ PageOutcome(k) = "ok"
         /\ \E j \in DOMAIN extract_calls : extract_calls[j] = m.about

\* In the middle of the loop: some URL skipped, some extract collected.
C2_Witness ==
    /\ pc = "processing"
    /\ index >= 2
    /\ Len(parsed_summaries) >= 1
    /\ Len(parsed_summaries) < index
    /\ \E k \in 1..index : PageOutcome(k) \in {"fetch_exc", "extract_exc"}

\* ------------------------------------------------------------------- C3
\* C3: whatever pages fail, the fetches made so far are exactly the first
\* `index` URLs of the first 20 link-bearing results, each once and in rank
\* order; and a run in the loop reaches the step after the loop with every
\* URL of that prefix fetched.
C3_FetchedInOrder ==
    /\ fetch_calls = SubSeq(UsableUrls, 1, index)
    /\ pc \in {"collected", "done"} /\ SearchedOk => fetch_calls = UsableUrls

C3_NoAbort ==
    /\ []C3_FetchedInOrder
    /\ (pc = "processing") ~> (pc = "collected" /\ fetch_calls = UsableUrls)

\* After the loop over a full prefix of 20 out of more results, with failed
\* fetches and failed extractions on the way.
C3_Witness ==
    /\ pc = "collected"
    /\ Len(urls) > 20
    /\ Len(fetch_calls) = 20
    /\ \E k \in 1..20 : PageOutcome(k) = "fetch_exc"
    /\ \E k \in 1..20 : PageOutcome(k) = "extract_exc"

\* ------------------------------------------------------------------- C4
\* The run is over and the search answered with no link-bearing result.
ZeroUsableUrls ==
    /\ pc \in {"done", "crashed"}
    /\ search_response.kind = "json"
    /\ UsableUrls = <<>>

C5_NoArticleOnSynthesisFailure ==
    (pc = "done" /\ Shown("error", "blog_post_error")) => ~Rendered

EndedInFailure ==
    /\ pc = "done"
    /\ \/ ~Truthy(search_results)
       \/ parsed_summaries = <<>>
       \/ blog_post = None

\* C7: a run that ends in a fatal failure shows exactly one fatal st.error,
\* and no run shows two of them or one of them next to a rendered article.
C7_OneFatalMessage ==
    /\ EndedInFailure => Cardinality(FatalErrors) = 1
    /\ Cardinality(FatalErrors) <= 1
    /\ ~(FatalErrors # {} /\ Rendered)

\* ------------------------------------------------------------------- C8
\* C8 as stated: after the loop the collection holds one member for each
\* URL whose fetch returned content and whose extraction call returned
\* without raising, whatever it returned.
C8_AsStated ==
    (SearchedOk /\ pc \in {"collected", "done"})
        => Len(parsed_summaries) = Len(PagesWith({"ok", "extract_empty"}))

\* C8 as amended: after the loop the collection holds, once each and in
\* order, the non-empty texts the extraction returned for the URLs whose
\* fetch returned content; an extraction that returns the empty string is
\* dropped like one that raised.
C8_NonEmptyExtractsAppendedOnce ==
    (SearchedOk /\ pc \in {"collected", "done"})
        => LET ks == PagesWith({"ok"}) IN
           /\ Len(parsed_summaries) = Len(ks)
           /\ \A i \in DOMAIN ks :
                parsed_summaries[i] = Str("extract", UsableUrls[ks[i]], FALSE)
           /\ \A k \in 1..Len(UsableUrls) :
                PageOutcome(k) = "extract_empty"
                    => /\ \E j \in DOMAIN extract_calls :
                            extract_calls[j] = UsableUrls[k]
                       /\ \A i \in DOMAIN parsed_summaries :
                            parsed_summaries[i].about # UsableUrls[k]

\* After the loop: an extract collected and an empty extraction dropped.
C8_Witness ==
    /\ pc = "collected"
    /\ Len(parsed_summaries) >= 1
    /\ \E k \in 1..total_urls : PageOutcome(k) = "extract_empty"
    /\ \E k \in 1..total_urls : PageOutcome(k) = "ok"

\* ------------------------------------------------------------------- C9
\* C9: when the synthesis call returns a text, the run ends by rendering
\* exactly that text with st.markdown and shows no fatal st.error.
C9_ArticleIsWhatSynthesisReturned ==
    (pc = "done" /\ synth_calls # <<>> /\ blog_post.type = "str")
        => /\ LastUi = Ui("markdown", blog_post)
           /\ FatalErrors = {}

\* ------------------------------------------------------------------ C10
\* C10: create_blog_post is called at most once; when it has been called the
\* loop is over, every URL of the prefix has been fetched and no other fetch
\* or extraction has been made, and it was given the final collection, whose
\* members follow the rank order of their URLs.
C10_JoinBarrier ==
    /\ Len(synth_calls) <= 1
    /\ synth_calls # <<>>
         => /\ pc = "done"
            /\ index = total_urls
            /\ fetch_calls = UsableUrls
            /\ Len(extract_calls) <= Len(fetch_calls)
            /\ synth_calls[1] = parsed_summaries
            /\ \A i, j \in DOMAIN parsed_summaries :
                 i < j => parsed_summaries[i].about < parsed_summaries[j].about
            /\ \A i \in DOMAIN parsed_summaries :
                 \E k \in DOMAIN fetch_calls :
                     fetch_calls[k] = parsed_summaries[i].about

\* Synthesis over two or more extracts, some URL of the prefix skipped.
C10_Witness ==
    /\ synth_calls # <<>>
    /\ Len(synth_calls[1]) >= 2
    /\ Len(synth_calls[1]) < total_urls
====
